---- MODULE Spec2Model ----
(***************************************************************************)
(* Model of the data-preparation and classification routines of            *)
(* f451_common: is_valid, is_in_range, get_delta_range (common.py) and      *)
(* prep_data with its helpers _sparkline_colors and _dataPt_color           *)
(* (cli_ui.py).                                                             *)
(*                                                                         *)
(* Numbers.  Every number is a fixed-point value counted in steps of 0.02,  *)
(* so Whole(10) = 500 stands for 10.0 and 501 for 10.02.  The step is finer *)
(* than the one decimal that round(x, 1) keeps, and no multiple of 0.02     *)
(* lies half-way between two tenths, so round(x, 1) is modelled exactly     *)
(* (round1).  A tolerance factor is counted in percent (2 stands for 0.02); *)
(* the band edges second * (1 -+ factor) are kept multiplied by 100 and     *)
(* compared with 100 * first, which is the comparison of the code in exact  *)
(* arithmetic.                                                              *)
(*                                                                         *)
(* Objects.  The functions above are checked call by call (Spec).  The     *)
(* classes AdafruitCloud and AdafruitFeed (cloud.py), BaseUI (cli_ui.py)    *)
(* and the main loop of ui_demo.py keep state between calls; their fields   *)
(* are in heap, and each has a specification of its own (SpecCloud, SpecUI, *)
(* SpecLoop) whose actions are the operations on the object.                *)
(*                                                                         *)
(* Optional values.  Python's None is the empty tuple and a present number  *)
(* n is the 1-tuple <<n>>, so that "x is None" is x = None and arithmetic   *)
(* on an absent value is an evaluation error, as it is a TypeError in       *)
(* Python.                                                                  *)
(***************************************************************************)
EXTENDS Integers, Sequences, FiniteSets, TLC

VARIABLES
    fn,       \* the function being called
    args,     \* its arguments (a record)
    pc,       \* "call" before the function has run, "return" after
    ret,      \* the value returned (None until the function returns)
    raised,   \* "none", or the name of the exception the call raised
    heap      \* the fields of the objects that outlive a call (None if none)

vars == <<fn, args, pc, ret, raised, heap>>

None == <<>>
Num(n) == <<n>>
V(x) == x[1]
Whole(n) == 50 * n

\* Python truth value of None-or-number: None and 0 are falsy.
Truthy(x) == x # None /\ V(x) # 0

\* Python all() / any() over a tuple or list of None-or-number.
all(t) == \A i \in 1..Len(t) : Truthy(t[i])
any(t) == \E i \in 1..Len(t) : Truthy(t[i])

Min(a, b) == IF a <= b THEN a ELSE b

\* ---------------------------------------------------------------- common.py

COLOR_MAP == <<"red", "yellow", "green", "cyan", "blue">>
COLOR_LOW == 0
COLOR_NORM == 2
COLOR_HIGH == 4

\* get_tri_colors(colors=None, asRGB=False): the colour names of the
\* entries 0, 2 and 4 of the colour map (tuples are 1-based here).
get_tri_colors(colors) ==
    LET colorMap == IF colors = None THEN COLOR_MAP ELSE colors
    IN  [low    |-> colorMap[COLOR_LOW + 1],
         normal |-> colorMap[COLOR_NORM + 1],
         high   |-> colorMap[COLOR_HIGH + 1]]

\* is_valid that accepts a value meeting either bound: "or", not "and".
is_valid_either(val, valid, allowNone) ==
    IF valid = None \/ ~all(valid)
    THEN allowNone
    ELSE IF val # None /\ any(valid)
         THEN \/ (valid[1] # None => V(val) >= V(valid[1]))
              \/ (valid[2] # None => V(val) <= V(valid[2]))
         ELSE FALSE

\* is_valid(val, valid, allowNone=True)
is_valid(val, valid, allowNone) ==
    IF valid = None \/ ~all(valid)
    THEN allowNone
    ELSE IF val # None /\ any(valid)
         THEN /\ (valid[1] # None => V(val) >= V(valid[1]))
              /\ (valid[2] # None => V(val) <= V(valid[2]))
         ELSE FALSE

\* The band edges of is_in_range and get_delta_range, multiplied by 100:
\* lower = second * (1 - factor), upper = second * (1 + factor).
lower(second, factor) == V(second) * (100 - factor)
upper(second, factor) == V(second) * (100 + factor)

\* is_in_range(first, second, factor)
is_in_range(first, second, factor) ==
    IF first = None \/ second = None
    THEN TRUE
    ELSE is_valid(Num(100 * V(first)),
                  <<Num(lower(second, factor)), Num(upper(second, factor))>>,
                  TRUE)

\* get_delta_range(first, second, factor)
get_delta_range(first, second, factor) ==
    IF first = None \/ second = None
    THEN 0
    ELSE IF 100 * V(first) > upper(second, factor) THEN 1
    ELSE IF 100 * V(first) < lower(second, factor) THEN -1
    ELSE 0


\* num_to_range(num, inMinMax, outMinMax, force=False).  The two ranges are
\* pairs of numbers; num is a number or None.

Max(a, b) == IF a >= b THEN a ELSE b

\* The width of a range without the guard for a range of one point.
deltaMinMax_unguarded(minMax) == minMax[2] - minMax[1]

\* deltaInMinMax and deltaOutMinMax: the width of the range, and 1 for a
\* range of one point.
deltaMinMax(minMax) ==
    IF minMax[2] # minMax[1] THEN minMax[2] - minMax[1] ELSE Whole(1)

\* num that is None or out of bounds becomes None whatever force says.
num_adjusted_unforced(num, inMinMax, force) ==
    IF num = None \/ V(num) < inMinMax[1] \/ V(num) > inMinMax[2]
    THEN None
    ELSE num

\* num after the two tests on it: None or a number within inMinMax.
num_adjusted(num, inMinMax, force) ==
    IF num = None
    THEN IF force THEN Num(inMinMax[1]) ELSE None
    ELSE IF V(num) < inMinMax[1] \/ V(num) > inMinMax[2]
         THEN IF force
              THEN Num(Min(Max(V(num), inMinMax[1]), inMinMax[2]))
              ELSE None
         ELSE num

\* The test of the ranges that looks at inMinMax only.
num_to_range_raises_inonly(num, inMinMax, outMinMax, force) ==
    IF inMinMax[1] > inMinMax[2]
    THEN "ValueError"
    ELSE "none"

\* The exception that num_to_range raises, "none" if it returns: ValueError
\* from the two tests of the ranges, ZeroDivisionError from the division by
\* float(deltaInMinMax).
num_to_range_raises(num, inMinMax, outMinMax, force) ==
    IF inMinMax[1] > inMinMax[2] \/ outMinMax[1] > outMinMax[2]
    THEN "ValueError"
    ELSE IF num_adjusted(num, inMinMax, force) # None /\ deltaMinMax(inMinMax) = 0
         THEN "ZeroDivisionError"
         ELSE "none"

\* num_to_range without the last line's max(min(...)).
num_to_range_unclamped(num, inMinMax, outMinMax, force) ==
    LET deltaInMinMax  == deltaMinMax(inMinMax)
        deltaOutMinMax == deltaMinMax(outMinMax)
        n == num_adjusted(num, inMinMax, force)
    IN  IF n = None
        THEN None
        ELSE << outMinMax[1] * deltaInMinMax
                  + (V(n) - inMinMax[1]) * deltaOutMinMax,
                deltaInMinMax >>

\* num_to_range that counts down from outMinMax[1] instead of up from
\* outMinMax[0].
num_to_range_downward(num, inMinMax, outMinMax, force) ==
    LET deltaInMinMax  == deltaMinMax(inMinMax)
        deltaOutMinMax == deltaMinMax(outMinMax)
        n == num_adjusted(num, inMinMax, force)
    IN  IF n = None
        THEN None
        ELSE LET val == outMinMax[2] * deltaInMinMax
                          - (V(n) - inMinMax[1]) * deltaOutMinMax
             IN  << Max(Min(val, outMinMax[2] * deltaInMinMax),
                        outMinMax[1] * deltaInMinMax),
                    deltaInMinMax >>

\* The value that num_to_range returns: None, or the fraction <<p, q>> that
\* stands for the number p / q (in steps), with q = deltaInMinMax > 0.
\*   val = outMinMax[0] + (num - inMinMax[0]) / deltaInMinMax * deltaOutMinMax
\* is kept multiplied by deltaInMinMax, and so are the two bounds that clamp it.
num_to_range(num, inMinMax, outMinMax, force) ==
    LET deltaInMinMax  == deltaMinMax(inMinMax)
        deltaOutMinMax == deltaMinMax(outMinMax)
        n == num_adjusted(num, inMinMax, force)
    IN  IF n = None
        THEN None
        ELSE LET val == outMinMax[1] * deltaInMinMax
                          + (V(n) - inMinMax[1]) * deltaOutMinMax
             IN  << Max(Min(val, outMinMax[2] * deltaInMinMax),
                        outMinMax[1] * deltaInMinMax),
                    deltaInMinMax >>


\* convert_to_bool(inVal).  A Python value is a record of its type and its
\* value: a bool, an int, a float counted in steps of 0.02, a str kept as
\* the sequence of its characters, or a value of another type.

STATUS_YES == <<"y", "e", "s">>
STATUS_ON == <<"o", "n">>
STATUS_TRUE == <<"t", "r", "u", "e">>

\* str.lower() on the characters that occur: an upper-case letter becomes
\* its lower-case letter, every other character stays.
UpperToLower ==
    [c \in {"E", "K", "N", "O", "R", "S", "T", "U", "Y"} |->
        CASE c = "E" -> "e" [] c = "K" -> "k" [] c = "N" -> "n" [] c = "O" -> "o"
          [] c = "R" -> "r" [] c = "S" -> "s" [] c = "T" -> "t" [] c = "U" -> "u"
          [] c = "Y" -> "y"]
lower_str(str) ==
    [i \in 1..Len(str) |->
        IF str[i] \in DOMAIN UpperToLower THEN UpperToLower[str[i]] ELSE str[i]]

\* int() that rounds down instead of towards zero.
int_floor(inVal) ==
    IF inVal.type = "float" THEN inVal.v \div Whole(1) ELSE inVal.v

\* int(inVal) of an int or a float: the float is truncated towards zero.
int_of(inVal) ==
    IF inVal.type = "float"
    THEN IF inVal.v >= 0
         THEN inVal.v \div Whole(1)
         ELSE -((-inVal.v) \div Whole(1))
    ELSE inVal.v

convert_to_bool(inVal) ==
    IF inVal.type = "bool"
    THEN inVal.v
    ELSE IF inVal.type \in {"int", "float"}
         THEN LET n == int_of(inVal)
              IN  (IF n < 0 THEN -n ELSE n) > 0
         ELSE IF inVal.type = "str"
              THEN lower_str(inVal.v) \in {STATUS_ON, STATUS_TRUE, STATUS_YES}
              ELSE FALSE

\* ---------------------------------------------------------------- cli_ui.py

APP_2COL_MIN_WIDTH == 80
APP_DELTA_FACTOR == 2
MAX_GRAPH_WIDTH == 40

\* round(x, 1) of a number counted in steps of 0.02: the nearest multiple
\* of 0.1 (five steps); a remainder of 1 or 2 steps rounds down, of 3 or 4
\* steps rounds up, and there are no ties.
round1(x) ==
    LET r == x % 5
    IN  IF r <= 2 THEN x - r ELSE x + (5 - r)

\* _sparkline_colors with the rules for low emitted before those for normal.
sparkline_colors_lowfirst(limits) ==
    IF all(limits)
    THEN LET colorMap == get_tri_colors(None)
         IN  << [color |-> colorMap.high,   op |-> "gt", value |-> round1(V(limits[3]))],
                [color |-> colorMap.low,    op |-> "eq", value |-> round1(V(limits[2]))],
                [color |-> colorMap.low,    op |-> "lt", value |-> round1(V(limits[2]))],
                [color |-> colorMap.normal, op |-> "eq", value |-> round1(V(limits[3]))],
                [color |-> colorMap.normal, op |-> "lt", value |-> round1(V(limits[3]))] >>
    ELSE None

\* prep_data._sparkline_colors(limits): the 'emph' rules for the sparkline,
\* each "<colour>:<gt|eq|lt>:<value>" kept as its three parts.
sparkline_colors(limits) ==
    IF all(limits)
    THEN LET colorMap == get_tri_colors(None)
         IN  << [color |-> colorMap.high,   op |-> "gt", value |-> round1(V(limits[3]))],
                [color |-> colorMap.normal, op |-> "eq", value |-> round1(V(limits[3]))],
                [color |-> colorMap.normal, op |-> "lt", value |-> round1(V(limits[3]))],
                [color |-> colorMap.low,    op |-> "eq", value |-> round1(V(limits[2]))],
                [color |-> colorMap.low,    op |-> "lt", value |-> round1(V(limits[2]))] >>
    ELSE None

\* _dataPt_color with the comparison against limits[2] turned round.
dataPt_color_flipped(val, limits, default) ==
    LET colorMap == get_tri_colors(None)
    IN  IF val # None /\ all(limits)
        THEN IF V(val) < round1(V(limits[3])) THEN colorMap.high
             ELSE IF V(val) <= round1(V(limits[2])) THEN colorMap.low
             ELSE colorMap.normal
        ELSE default

\* prep_data._dataPt_color(val, limits, default='')
dataPt_color(val, limits, default) ==
    LET colorMap == get_tri_colors(None)
    IN  IF val # None /\ all(limits)
        THEN IF V(val) > round1(V(limits[3])) THEN colorMap.high
             ELSE IF V(val) <= round1(V(limits[2])) THEN colorMap.low
             ELSE colorMap.normal
        ELSE default

\* The slice taken from the front of the list: list(data)[:graphWidth].
LastSlice_front(data, graphWidth) ==
    IF graphWidth >= Len(data) THEN data ELSE SubSeq(data, 1, graphWidth)

\* list(data)[-graphWidth:] for graphWidth >= 0; data[-0:] is the whole list.
LastSlice(data, graphWidth) ==
    IF graphWidth = 0 \/ graphWidth >= Len(data)
    THEN data
    ELSE SubSeq(data, Len(data) - graphWidth + 1, Len(data))

\* min() and max() of a non-empty list of present numbers.
SeqMin(s) == V(CHOOSE x \in {s[i] : i \in 1..Len(s)} :
                   \A j \in 1..Len(s) : V(x) <= V(s[j]))
SeqMax(s) == V(CHOOSE x \in {s[i] : i \in 1..Len(s)} :
                   \A j \in 1..Len(s) : V(x) >= V(s[j]))

\* The dataSet that prep_data creates first for a row, and returns as it is
\* with labelsOnly.
NewDataSet(row) ==
    [sparkData   |-> <<>>,
     sparkColors |-> None,
     sparkMinMax |-> <<None, None>>,
     dataPt      |-> None,
     dataPtOK    |-> TRUE,
     dataPtDelta |-> 0,
     dataPtColor |-> "",
     unit        |-> row.unit,
     label       |-> row.label]

\* dataSlice of a row: the last graphWidth samples of its window.
dataSliceOf(row, conWidth) ==
    LastSlice(row.data, Min(conWidth \div 2, MAX_GRAPH_WIDTH))

\* The body of prep_data's loop for one row whose slice has at least two
\* samples.  dataPtOK keeps the truth value of "dataPt or dataSlice[-1] is
\* None".
PrepRow(row, deltaFactor, conWidth) ==
    LET dataSlice == dataSliceOf(row, conWidth)
        n         == Len(dataSlice)
        dataValid == [i \in 1..n |->
                        IF is_valid(dataSlice[i], row.valid, TRUE)
                        THEN dataSlice[i] ELSE None]
        dataClean == SelectSeq(dataValid, LAMBDA i : i # None)
        dataPt    == IF is_valid(dataSlice[n], row.valid, TRUE)
                     THEN dataSlice[n] ELSE None
        dataPtOK  == Truthy(dataPt) \/ dataSlice[n] = None
        dataPtPrev == IF is_valid(dataSlice[n - 1], row.valid, TRUE)
                      THEN dataSlice[n - 1] ELSE None
        dataPtDelta == get_delta_range(dataPt, dataPtPrev, deltaFactor)
    IN  [sparkData   |-> [i \in 1..n |->
                            IF dataValid[i] = None THEN 0 ELSE V(dataValid[i])],
         sparkColors |-> sparkline_colors(row.limits),
         sparkMinMax |-> IF any(dataClean)
                         THEN <<Num(SeqMin(dataClean)), Num(SeqMax(dataClean))>>
                         ELSE <<None, None>>,
         dataPt      |-> dataPt,
         dataPtOK    |-> dataPtOK,
         dataPtDelta |-> dataPtDelta,
         dataPtColor |-> dataPt_color(dataPt, row.limits, ""),
         unit        |-> row.unit,
         label       |-> row.label]

\* Whether prep_data's loop body raises IndexError on a row: dataSlice[-1]
\* and dataSlice[-2] need two samples in the slice.
RowRaises(row, labelsOnly, conWidth) ==
    ~labelsOnly /\ Len(dataSliceOf(row, conWidth)) < 2

\* prep_data(inData, dataTypes, deltaFactor, labelsOnly, conWidth): inData is
\* the sequence of the (key, row) items of the mapping, in its order.
prep_data_raises(inData, dataTypes, labelsOnly, conWidth) ==
    \E k \in 1..Len(inData) :
        inData[k].key \in dataTypes /\ RowRaises(inData[k].row, labelsOnly, conWidth)

prep_data(inData, dataTypes, deltaFactor, labelsOnly, conWidth) ==
    LET picked == SelectSeq(inData, LAMBDA item : item.key \in dataTypes)
    IN  [k \in 1..Len(picked) |->
            IF labelsOnly
            THEN NewDataSet(picked[k].row)
            ELSE PrepRow(picked[k].row, deltaFactor, conWidth)]

\* prep_data that stores the slice back into the row: row['data'] = dataSlice.
inData_sliced(inData, dataTypes, labelsOnly, conWidth) ==
    [k \in 1..Len(inData) |->
        IF inData[k].key \in dataTypes /\ ~labelsOnly
        THEN [inData[k] EXCEPT !.row.data = dataSliceOf(inData[k].row, conWidth)]
        ELSE inData[k]]

\* The caller's mapping after prep_data has returned.  The loop only reads
\* inData and its rows: list(row['data']) copies the window before it is
\* sliced, and every assignment goes to the new dataSet or to outData.
inData_after(inData, dataTypes, labelsOnly, conWidth) == inData

\* ------------------------------------------------------------ input domains

MaxNum == 3         \* small numbers: -MaxNum..MaxNum steps of 0.02
MaxStep == 12       \* classifier values and limits: 0..MaxStep steps
MaxWindow == 3      \* longest sample window

Opt(S) == {None} \cup {Num(n) : n \in S}

SmallNums == -MaxNum..MaxNum

\* Values and range bounds given to is_valid.
ValidVals == SmallNums \cup {Whole(10), Whole(999)}
ValidBounds == SmallNums \cup {Whole(100)}
ValidRanges == {None} \cup (Opt(ValidBounds) \X Opt(ValidBounds))

\* Values compared by is_in_range and get_delta_range, tolerances in percent.
DeltaVals == SmallNums \cup {Whole(-100), Whole(97), Whole(98), Whole(100),
                             Whole(101), Whole(102), Whole(103)}
Factors == {0, APP_DELTA_FACTOR, 50, 100, 150}

\* Values and limit sets given to the classifier: limits[1] <= ... <= limits[4]
\* where all four are present, and limit sets with one entry absent.
ColorVals == (-1..MaxStep + 1) \cup {Whole(10), Whole(20), Whole(30), Whole(30) + 1}
LimitNums == {0, 2, 4, 5, 8, 10, MaxStep}
OrderedLimits ==
    {l \in LimitNums \X LimitNums \X LimitNums \X LimitNums :
        l[1] <= l[2] /\ l[2] <= l[3] /\ l[3] <= l[4]}
    \cup {<<0, Whole(10), Whole(20), Whole(30)>>, <<Whole(5), Whole(10), Whole(20), Whole(30)>>}
LimitSets ==
    {<<Num(l[1]), Num(l[2]), Num(l[3]), Num(l[4])>> : l \in OrderedLimits}
    \cup {<<Num(0), None, Num(Whole(20)), Num(Whole(30))>>,
          <<None, Num(4), Num(8), Num(MaxStep)>>,
          <<None, None, None, None>>}

\* Sample windows and rows given to prep_data.
WinSamples == Opt({0, Whole(10), Whole(12), Whole(999)})
Windows == UNION {[1..n -> WinSamples] : n \in 0..MaxWindow}
RowRanges == {None, <<None, None>>,
              <<Num(0), Num(Whole(100))>>, <<Num(Whole(1)), Num(Whole(100))>>,
              <<None, Num(Whole(100))>>, <<Num(Whole(11)), None>>,
              <<Num(Whole(100)), Num(Whole(1))>>}
RowLimits == {<<Num(Whole(5)), Num(Whole(10)), Num(Whole(20)), Num(Whole(30))>>,
              <<Num(0), Num(Whole(10)), Num(Whole(20)), Num(Whole(30))>>}
ConWidths == {1, 2, 4, APP_2COL_MIN_WIDTH}
APP_DATA_TYPES == {"number1", "number2"}

\* Ranges and numbers given to num_to_range.
RangeEnds == {-MaxNum, 0, MaxNum, Whole(10), Whole(100)}
Ranges == RangeEnds \X RangeEnds
RangeNums == Opt(SmallNums \cup {-MaxNum - 1, MaxNum + 1, Whole(7), Whole(10),
                                  Whole(50), Whole(100), Whole(101)})

\* Values given to convert_to_bool.
BoolFloats == SmallNums \cup {-60, -55, -50, -49, -5, 5, 49, 50, 55, 60}
BoolChars == {"o", "n", "O", "N", " "}
BoolStrings ==
    UNION {[1..n -> BoolChars] : n \in 0..2}
    \cup {<<"y", "e", "s">>, <<"Y", "e", "s">>, <<"Y", "E", "S">>,
          <<"y", "e", "s", " ">>, <<"t", "r", "u", "e">>, <<"T", "r", "u", "e">>,
          <<"T", "R", "U", "E">>, <<"t", "r", "u">>, <<"o", "k">>, <<"O", "K">>,
          <<"n", "o">>, <<"1">>,
          <<"u", "n", "k", "n", "o", "w", "n">>}
BoolValues ==
    {[type |-> "bool", v |-> b] : b \in BOOLEAN}
    \cup {[type |-> "int", v |-> n] : n \in SmallNums}
    \cup {[type |-> "float", v |-> x] : x \in BoolFloats}
    \cup {[type |-> "str", v |-> str] : str \in BoolStrings}
    \cup {[type |-> t, v |-> None] : t \in {"NoneType", "list", "tuple", "dict"}}

InData(data, valid, limits) ==
    << [key |-> "number1",
        row |-> [data |-> data, valid |-> valid, limits |-> limits,
                 unit |-> "", label |-> "Number 1"]] >>

\* ------------------------------------------------------------ state machine

Inputs_is_valid ==
    \E val \in Opt(ValidVals), valid \in ValidRanges, allowNone \in BOOLEAN :
        /\ fn = "is_valid"
        /\ args = [val |-> val, valid |-> valid, allowNone |-> allowNone]

Inputs_is_in_range ==
    \E first \in Opt(DeltaVals), second \in Opt(DeltaVals), factor \in Factors :
        /\ fn = "is_in_range"
        /\ args = [first |-> first, second |-> second, factor |-> factor]

Inputs_get_delta_range ==
    \E first \in Opt(DeltaVals), second \in Opt(DeltaVals), factor \in Factors :
        /\ fn = "get_delta_range"
        /\ args = [first |-> first, second |-> second, factor |-> factor]

Inputs_dataPt_color ==
    \E val \in Opt(ColorVals), limits \in LimitSets :
        /\ fn = "dataPt_color"
        /\ args = [val |-> val, limits |-> limits]

Inputs_sparkline_colors ==
    \E limits \in LimitSets :
        /\ fn = "sparkline_colors"
        /\ args = [limits |-> limits]

Inputs_num_to_range ==
    \E num \in RangeNums, inMinMax \in Ranges, outMinMax \in Ranges,
       force \in BOOLEAN :
        /\ fn = "num_to_range"
        /\ args = [num |-> num, inMinMax |-> inMinMax,
                   outMinMax |-> outMinMax, force |-> force]

Inputs_convert_to_bool ==
    \E inVal \in BoolValues :
        /\ fn = "convert_to_bool"
        /\ args = [inVal |-> inVal]

Inputs_prep_data ==
    \E data \in Windows, valid \in RowRanges, limits \in RowLimits :
        /\ fn = "prep_data"
        /\ \/ \E conWidth \in ConWidths, deltaFactor \in {APP_DELTA_FACTOR, 50} :
                args = [inData |-> InData(data, valid, limits),
                        dataTypes |-> APP_DATA_TYPES,
                        deltaFactor |-> deltaFactor,
                        labelsOnly |-> FALSE,
                        conWidth |-> conWidth]
           \/ args = [inData |-> InData(data, valid, limits),
                      dataTypes |-> APP_DATA_TYPES,
                      deltaFactor |-> APP_DELTA_FACTOR,
                      labelsOnly |-> TRUE,
                      conWidth |-> APP_2COL_MIN_WIDTH]

Init ==
    /\ pc = "call"
    /\ ret = None
    /\ raised = "none"
    /\ heap = None
    /\ \/ Inputs_is_valid
       \/ Inputs_is_in_range
       \/ Inputs_get_delta_range
       \/ Inputs_dataPt_color
       \/ Inputs_sparkline_colors
       \/ Inputs_prep_data
       \/ Inputs_num_to_range
       \/ Inputs_convert_to_bool

Return(value) ==
    /\ pc' = "return"
    /\ ret' = value
    /\ raised' = "none"
    /\ UNCHANGED <<fn, args, heap>>

Raise(exception) ==
    /\ pc' = "return"
    /\ raised' = exception
    /\ UNCHANGED <<fn, args, ret, heap>>

Call_is_valid ==
    /\ pc = "call" /\ fn = "is_valid"
    /\ Return(is_valid(args.val, args.valid, args.allowNone))

Call_is_in_range ==
    /\ pc = "call" /\ fn = "is_in_range"
    /\ Return(is_in_range(args.first, args.second, args.factor))

Call_get_delta_range ==
    /\ pc = "call" /\ fn = "get_delta_range"
    /\ Return(get_delta_range(args.first, args.second, args.factor))

Call_dataPt_color ==
    /\ pc = "call" /\ fn = "dataPt_color"
    /\ Return(dataPt_color(args.val, args.limits, ""))

Call_sparkline_colors ==
    /\ pc = "call" /\ fn = "sparkline_colors"
    /\ Return(sparkline_colors(args.limits))

Call_num_to_range ==
    /\ pc = "call" /\ fn = "num_to_range"
    /\ LET exception == num_to_range_raises(args.num, args.inMinMax,
                                            args.outMinMax, args.force)
       IN  IF exception # "none"
           THEN Raise(exception)
           ELSE Return(num_to_range(args.num, args.inMinMax,
                                    args.outMinMax, args.force))

Call_convert_to_bool ==
    /\ pc = "call" /\ fn = "convert_to_bool"
    /\ Return(convert_to_bool(args.inVal))

\* A call of prep_data: it returns outData and leaves the caller's mapping as
\* inData_after says, or raises IndexError from the loop body.
Run_prep_data(done) ==
    IF prep_data_raises(args.inData, args.dataTypes, args.labelsOnly, args.conWidth)
    THEN /\ pc' = done
         /\ raised' = "IndexError"
         /\ UNCHANGED <<fn, args, ret, heap>>
    ELSE /\ pc' = done
         /\ ret' = prep_data(args.inData, args.dataTypes, args.deltaFactor,
                             args.labelsOnly, args.conWidth)
         /\ raised' = "none"
         /\ args' = [args EXCEPT !.inData =
                        inData_after(args.inData, args.dataTypes,
                                     args.labelsOnly, args.conWidth)]
         /\ UNCHANGED <<fn, heap>>

Call_prep_data ==
    /\ pc = "call" /\ fn = "prep_data"
    /\ Run_prep_data("return")

\* The caller calls prep_data once more with the same mapping and the same
\* parameters after it has returned.
Recall_prep_data ==
    /\ pc = "return" /\ fn = "prep_data" /\ raised = "none"
    /\ Run_prep_data("return2")

Next ==
    \/ Call_is_valid
    \/ Call_is_in_range
    \/ Call_get_delta_range
    \/ Call_dataPt_color
    \/ Call_sparkline_colors
    \/ Call_prep_data
    \/ Recall_prep_data
    \/ Call_num_to_range
    \/ Call_convert_to_bool

Spec == Init /\ [][Next]_vars

\* ----------------------------------------------------------------- cloud.py

\* A setting is None or a string <<s>>; None and '' are falsy.  A value
\* that a method returns is None or <<r>> with r a record: a data object of
\* the library, the scalar in its value field, or a coroutine object.
Str(s) == <<s>>
TruthyStr(x) == x # None /\ V(x) # ""

\* The clients of the Adafruit IO library.  They are objects of classes
\* without __bool__ or __len__, hence truthy.
aioREST(aioID, aioKey) == [client |-> "REST", username |-> aioID, key |-> aioKey]
aioMQTT(aioID, aioKey) == [client |-> "MQTT", username |-> aioID, key |-> aioKey]

\* AdafruitCloud.__init__ with CloudService.__init__: the fields of the
\* service.  A setting that is not given is None (settings.get).
AdafruitCloud_init(settings) ==
    LET aioID  == settings.AIO_ID
        aioKey == settings.AIO_KEY
        given  == TruthyStr(aioID) /\ TruthyStr(aioKey)
        rest   == IF given THEN aioREST(aioID, aioKey) ELSE None
        mqtt   == IF given THEN aioMQTT(aioID, aioKey) ELSE None
    IN  [ID |-> aioID, KEY |-> aioKey, REST |-> rest, MQTT |-> mqtt,
         active |-> given /\ rest # None /\ mqtt # None,
         aioLocID |-> settings.AIO_LOC_ID]

\* Feed.__init__ (through AdafruitFeed.__init__): the fields of the feed.
Feed_init(feed, active) ==
    [feed |-> feed, active |-> feed # None /\ active]

\* What a call does: the exception it raises ("none" if it returns), the
\* value it returns, and the calls of the REST client it has made.
Outcome(exception, value, calls) ==
    [raised |-> exception, ret |-> value, calls |-> calls]

\* self._REST.method(a): the library answers with a value or raises
\* RequestError; on a service without a client the attribute is missing.
REST_call(service, method, a, answer) ==
    IF service.REST = None
    THEN Outcome("AttributeError", None, <<>>)
    ELSE IF "error" \in DOMAIN answer
         THEN Outcome(answer.error, None, <<[method |-> method, args |-> a]>>)
         ELSE Outcome("none", <<answer>>, <<[method |-> method, args |-> a]>>)

\* A service that never reports that it is not initiated.
NotInitiated_never(service) == FALSE

\* "if not self._active: raise AdafruitCloudError()", the first statement of
\* every operation of AdafruitCloud.
NotInitiated(service) == ~service.active

\* create_feed(feedName, strict): taken is the library's answer to feeds()
\* (whether the name is in the list, or RequestError), answer its answer to
\* create_feed().
create_feed(service, feedName, strict, taken, answer) ==
    IF NotInitiated(service)
    THEN Outcome("AdafruitCloudError", None, <<>>)
    ELSE IF feedName = ""
    THEN Outcome("AdafruitCloudError", None, <<>>)
    ELSE LET listed  == REST_call(service, "feeds", <<>>, taken)
             created == REST_call(service, "create_feed", <<feedName>>, answer)
         IN  IF ~strict
             THEN created
             ELSE IF listed.raised # "none"
             THEN listed
             ELSE IF taken.listed
             THEN Outcome("AdafruitCloudError", None, listed.calls)
             ELSE Outcome(created.raised, created.ret, listed.calls \o created.calls)

feed_list(service, answer) ==
    IF NotInitiated(service)
    THEN Outcome("AdafruitCloudError", None, <<>>)
    ELSE REST_call(service, "feeds", <<>>, answer)

feed_info(service, feedKey, answer) ==
    IF NotInitiated(service)
    THEN Outcome("AdafruitCloudError", None, <<>>)
    ELSE IF feedKey = ""
    THEN Outcome("AdafruitCloudError", None, <<>>)
    ELSE REST_call(service, "feeds", <<feedKey>>, answer)

\* delete_feed and send_data return nothing: the answer of the library is
\* dropped.
delete_feed(service, feedKey, answer) ==
    IF NotInitiated(service)
    THEN Outcome("AdafruitCloudError", None, <<>>)
    ELSE LET r == REST_call(service, "delete_feed", <<feedKey>>, answer)
         IN  Outcome(r.raised, None, r.calls)

send_data(service, feedKey, dataPt, answer) ==
    IF NotInitiated(service)
    THEN Outcome("AdafruitCloudError", None, <<>>)
    ELSE LET r == REST_call(service, "send_data", <<feedKey, dataPt>>, answer)
         IN  Outcome(r.raised, None, r.calls)

\* receive_data and receive_random: "data if raw else data.value".
receive_data(service, feedKey, raw, answer) ==
    IF NotInitiated(service)
    THEN Outcome("AdafruitCloudError", None, <<>>)
    ELSE LET r == REST_call(service, "receive", <<feedKey>>, answer)
         IN  IF r.raised # "none" \/ raw THEN r
             ELSE Outcome("none", <<[scalar |-> V(r.ret).value]>>, r.calls)

receive_random(service, randomID, raw, answer) ==
    IF NotInitiated(service)
    THEN Outcome("AdafruitCloudError", None, <<>>)
    ELSE LET r == REST_call(service, "receive_random", <<randomID>>, answer)
         IN  IF r.raised # "none" \/ raw THEN r
             ELSE Outcome("none", <<[scalar |-> V(r.ret).value]>>, r.calls)

\* receive_weather: the data, or the data through json.dumps and json.loads,
\* which gives back an equal value for the JSON that the library returns.
receive_weather(service, weatherID, raw, answer) ==
    IF NotInitiated(service)
    THEN Outcome("AdafruitCloudError", None, <<>>)
    ELSE LET wID == IF weatherID # None THEN weatherID ELSE service.aioLocID
         IN  REST_call(service, "receive_weather", <<wID>>, answer)

\* The coroutine object that a call of an "async def" method creates: the
\* body has not run yet, and runs when the object is awaited.
Coroutine(method, a) == [coroutine |-> method, args |-> a]
IsCoroutine(x) == x # None /\ "coroutine" \in DOMAIN V(x)

\* Awaited AdafruitFeed.send_data(dataPt): it awaits the send of the service.
AdafruitFeed_send_data(feed, service, dataPt, answer) ==
    IF ~feed.active
    THEN Outcome("AdafruitCloudError", None, <<>>)
    ELSE send_data(service, V(feed.feed).key, dataPt, answer)

\* Awaited AdafruitFeed.receive_data(raw): it returns what the call
\* self._service.receive_data(...) gives, which is a coroutine object,
\* since the call is not awaited.
AdafruitFeed_receive_data(feed, service, raw) ==
    IF ~feed.active
    THEN Outcome("AdafruitCloudError", None, <<>>)
    ELSE Outcome("none",
                 <<Coroutine("receive_data", <<V(feed.feed).key, raw>>)>>, <<>>)

\* --- inputs of the cloud model
MaxCalls == 2       \* most calls of the REST client in one run

SettingIDs == {None, Str(""), Str("user")}
SettingKeys == {None, Str(""), Str("secret")}
SettingLocs == {None, Str("loc-1")}
FeedObjects == {None, <<[key |-> "feed-a"]>>}
FeedNames == {"", "feed-a"}
DataPts == {0, 1}
\* What the library can answer: data objects with a value, or an error.
DataAnswers == {[value |-> 0], [value |-> 1]}
Answers == DataAnswers \cup {[error |-> "RequestError"]}
ListAnswers == {[listed |-> TRUE], [listed |-> FALSE], [error |-> "RequestError"]}

\* The service and a feed on it, after construction.
InitCloud ==
    \E aioID \in SettingIDs, aioKey \in SettingKeys, aioLocID \in SettingLocs,
       feed \in FeedObjects, active \in BOOLEAN :
        /\ fn = "AdafruitCloud"
        /\ args = [settings |-> [AIO_ID |-> aioID, AIO_KEY |-> aioKey,
                                 AIO_LOC_ID |-> aioLocID],
                   feed |-> feed, active |-> active]
        /\ pc = "return"
        /\ ret = None
        /\ raised = "none"
        /\ heap = [service |-> AdafruitCloud_init(args.settings),
                   feed    |-> Feed_init(feed, active),
                   calls   |-> <<>>]

\* One operation on the service or the feed, from call to return or raise.
Operation(name, a, out) ==
    /\ Len(heap.calls) + Len(out.calls) <= MaxCalls
    /\ fn' = name
    /\ args' = a
    /\ pc' = "return"
    /\ ret' = out.ret
    /\ raised' = out.raised
    /\ heap' = [heap EXCEPT !.calls = @ \o out.calls]

Do_create_feed ==
    \E feedName \in FeedNames, strict \in BOOLEAN, taken \in ListAnswers,
       answer \in Answers :
        Operation("create_feed", [feedName |-> feedName, strict |-> strict],
                  create_feed(heap.service, feedName, strict, taken, answer))

Do_feed_list ==
    \E answer \in Answers :
        Operation("feed_list", [none |-> None], feed_list(heap.service, answer))

Do_feed_info ==
    \E feedKey \in FeedNames, answer \in Answers :
        Operation("feed_info", [feedKey |-> feedKey],
                  feed_info(heap.service, feedKey, answer))

Do_delete_feed ==
    \E feedKey \in FeedNames, answer \in Answers :
        Operation("delete_feed", [feedKey |-> feedKey],
                  delete_feed(heap.service, feedKey, answer))

Do_send_data ==
    \E feedKey \in FeedNames, dataPt \in DataPts, answer \in Answers :
        Operation("send_data", [feedKey |-> feedKey, dataPt |-> dataPt],
                  send_data(heap.service, feedKey, dataPt, answer))

Do_receive_data ==
    \E feedKey \in FeedNames, raw \in BOOLEAN, answer \in Answers :
        Operation("receive_data", [feedKey |-> feedKey, raw |-> raw],
                  receive_data(heap.service, feedKey, raw, answer))

Do_receive_weather ==
    \E weatherID \in SettingLocs, raw \in BOOLEAN, answer \in Answers :
        Operation("receive_weather", [weatherID |-> weatherID, raw |-> raw],
                  receive_weather(heap.service, weatherID, raw, answer))

Do_receive_random ==
    \E randomID \in SettingLocs, raw \in BOOLEAN, answer \in Answers :
        Operation("receive_random", [randomID |-> randomID, raw |-> raw],
                  receive_random(heap.service, randomID, raw, answer))

Do_AdafruitFeed_send_data ==
    \E dataPt \in DataPts, answer \in Answers :
        Operation("AdafruitFeed.send_data", [dataPt |-> dataPt],
                  AdafruitFeed_send_data(heap.feed, heap.service, dataPt, answer))

Do_AdafruitFeed_receive_data ==
    \E raw \in BOOLEAN :
        Operation("AdafruitFeed.receive_data", [raw |-> raw],
                  AdafruitFeed_receive_data(heap.feed, heap.service, raw))

\* The caller awaits the coroutine object that the last call returned: the
\* body of AdafruitCloud.receive_data runs.
Await_returned ==
    /\ raised = "none" /\ IsCoroutine(ret)
    /\ \E answer \in Answers :
          Operation("await receive_data", [coroutine |-> ret],
                    receive_data(heap.service, V(ret).args[1], V(ret).args[2],
                                 answer))

NextCloud ==
    \/ Do_create_feed
    \/ Do_feed_list
    \/ Do_feed_info
    \/ Do_delete_feed
    \/ Do_send_data
    \/ Do_receive_data
    \/ Do_receive_weather
    \/ Do_receive_random
    \/ Do_AdafruitFeed_send_data
    \/ Do_AdafruitFeed_receive_data
    \/ Await_returned

SpecCloud == InitCloud /\ [][NextCloud]_vars

\* --------------------------------------------------------------- ui_demo.py

\* collect_data and main_loop.  Times are whole seconds.  app holds the
\* fields of the runtime object that the loop reads and writes; the sensor,
\* the data queue and the terminal do not take part in the control flow.

APP_MIN_SENSOR_READ_WAIT == 1
APP_MIN_PROG_WAIT == 1
APP_WAIT_1SEC == 1

\* init_runtime: the counters of a new runtime object at time timeNow.
init_runtime(ioFreq, ioDelay, ioWait, uploads, timeNow) ==
    [ioFreq          |-> ioFreq,
     ioDelay         |-> ioDelay,
     ioWait          |-> Max(ioWait, APP_MIN_SENSOR_READ_WAIT),
     ioUploadAndExit |-> FALSE,
     timeSinceUpdate |-> 0,
     timeUpdate      |-> timeNow,
     uploadDelay     |-> ioDelay,
     maxUploads      |-> uploads,
     numUploads      |-> 0,
     loopWait        |-> APP_WAIT_1SEC]

\* collect_data that does not count its uploads.
collect_data_nocount(app, timeCurrent, upload) ==
    IF app.timeSinceUpdate >= app.uploadDelay
    THEN [app     |-> [app EXCEPT !.timeUpdate = timeCurrent],
          upload  |-> upload,
          exitApp |-> app.maxUploads > 0 /\ app.numUploads >= app.maxUploads]
    ELSE [app |-> app, upload |-> "none", exitApp |-> FALSE]

\* collect_data that leaves the loop only when the count has passed maxUploads.
collect_data_late(app, timeCurrent, upload) ==
    IF app.timeSinceUpdate >= app.uploadDelay
    THEN LET uploaded == IF upload = "ok"
                         THEN [app EXCEPT !.numUploads = @ + 1,
                                          !.uploadDelay = app.ioFreq]
                         ELSE app
         IN  [app     |-> [uploaded EXCEPT !.timeUpdate = timeCurrent],
              upload  |-> upload,
              exitApp |-> uploaded.maxUploads > 0
                          /\ uploaded.numUploads > uploaded.maxUploads]
    ELSE [app |-> app, upload |-> "none", exitApp |-> FALSE]

\* collect_data(app, data, timeCurrent, cliUI).  upload is how the upload
\* ends if one is attempted: "ok", or "KeyboardInterrupt".  The result has
\* the runtime object after the call, what became of the upload ("none" if
\* none was due) and the value returned.  The except branch sets exitApp,
\* the else branch counts the upload; the finally branch runs after either
\* and assigns exitApp again.
collect_data(app, timeCurrent, upload) ==
    IF app.timeSinceUpdate >= app.uploadDelay
    THEN LET uploaded == IF upload = "ok"
                         THEN [app EXCEPT !.numUploads = @ + 1,
                                          !.uploadDelay = app.ioFreq]
                         ELSE app
         IN  [app     |-> [uploaded EXCEPT !.timeUpdate = timeCurrent],
              upload  |-> upload,
              exitApp |-> uploaded.maxUploads > 0
                          /\ uploaded.numUploads >= uploaded.maxUploads]
    ELSE [app |-> app, upload |-> "none", exitApp |-> FALSE]

\* --- inputs of the loop model
MaxTime == 16       \* the clock stops here

IoFreqs == {1, 3}
IoDelays == {0, 2}
IoWaits == {0, 1, 2}
Uploads == {-1, 0, 1, 2}
Sleeps == {1, 2}        \* seconds that pass during time.sleep(1)

\* main_loop is entered: exitApp = False, waitForSensor = 0.
InitLoop ==
    \E ioFreq \in IoFreqs, ioDelay \in IoDelays, ioWait \in IoWaits,
       uploads \in Uploads, late \in {0, 1} :
        /\ fn = "main_loop"
        /\ args = [ioFreq |-> ioFreq, ioDelay |-> ioDelay, ioWait |-> ioWait,
                   uploads |-> uploads]
        /\ pc = "loop"
        /\ ret = FALSE
        /\ raised = "none"
        /\ heap = [app           |-> init_runtime(ioFreq, ioDelay, ioWait, uploads, 0),
                   clock         |-> late,
                   exitApp       |-> FALSE,
                   waitForSensor |-> 0,
                   upload        |-> "none"]

\* The end of an iteration: "if not exitApp", sleep and count down; then the
\* test of the while statement.
EndOfIteration(app, exitApp, waitForSensor, upload, slept) ==
    /\ heap' = [app           |-> app,
                clock         |-> IF exitApp THEN heap.clock ELSE heap.clock + slept,
                exitApp       |-> exitApp,
                waitForSensor |-> IF exitApp THEN waitForSensor
                                  ELSE waitForSensor - app.loopWait,
                upload        |-> upload]
    /\ pc' = IF exitApp THEN "done" ELSE "loop"
    /\ raised' = "none"
    /\ UNCHANGED args

\* An iteration that waits for the next sensor read.
Loop_wait ==
    /\ pc = "loop" /\ heap.waitForSensor > 0
    /\ \E slept \in Sleeps :
          /\ heap.clock + slept <= MaxTime
          /\ fn' = "main_loop"
          /\ ret' = FALSE
          /\ EndOfIteration([heap.app EXCEPT !.timeSinceUpdate =
                                                heap.clock - heap.app.timeUpdate],
                            FALSE, heap.waitForSensor, "none", slept)

\* An iteration that reads the sensors: collect_data is called.
Loop_collect ==
    /\ pc = "loop" /\ heap.waitForSensor <= 0
    /\ \E slept \in Sleeps, upload \in {"ok", "KeyboardInterrupt"} :
          LET timeCurrent == heap.clock
              app  == [heap.app EXCEPT !.timeSinceUpdate =
                                          timeCurrent - heap.app.timeUpdate]
              done == collect_data(app, timeCurrent, upload)
          IN  /\ heap.clock + slept <= MaxTime
              /\ fn' = "collect_data"
              /\ ret' = done.exitApp
              /\ EndOfIteration(done.app, done.exitApp,
                                Max(app.ioWait, APP_MIN_PROG_WAIT),
                                done.upload, slept)

\* KeyboardInterrupt inside the try statement of the loop, outside the
\* upload: "except KeyboardInterrupt: exitApp = True".
Loop_interrupt ==
    /\ pc = "loop"
    /\ fn' = "main_loop"
    /\ ret' = FALSE
    /\ raised' = "none"
    /\ pc' = "done"
    /\ heap' = [heap EXCEPT !.exitApp = TRUE, !.upload = "none"]
    /\ UNCHANGED args

\* KeyboardInterrupt during time.sleep, which is outside the try statement:
\* it leaves main_loop.
Sleep_interrupt ==
    /\ pc = "loop"
    /\ fn' = "main_loop"
    /\ ret' = FALSE
    /\ raised' = "KeyboardInterrupt"
    /\ pc' = "done"
    /\ heap' = [heap EXCEPT !.upload = "none"]
    /\ UNCHANGED args

NextLoop ==
    \/ Loop_wait
    \/ Loop_collect
    \/ Loop_interrupt
    \/ Sleep_interrupt

SpecLoop == InitLoop /\ [][NextLoop]_vars

\* The loop keeps running, and nobody interrupts it outside an upload.
NextLoopAlone ==
    \/ Loop_wait
    \/ Loop_collect

SpecLoopLive == InitLoop /\ [][NextLoopAlone]_vars /\ WF_vars(NextLoopAlone)

\* ------------------------------------------------------- cli_ui.py: BaseUI

\* The fields of a BaseUI are a record.  The Rich layout is a record of its
\* panels: split says which of the two arrangements initialize has made
\* ("none" before any), and each panel holds what was last put in it (None
\* before).  A Text, Status, Table or Progress object is the record of what
\* it was made from.  The console size is read from the terminal at each
\* call of initialize and is an input of the call.

APP_1COL_MIN_WIDTH == 40
APP_MIN_CLI_HEIGHT == 10
STATUS_OK == 200
MAX_PROGBAR == 100
STATUS_LBL_NEXT == "Next:  "
STATUS_LBL_LAST == "Last:  "
STATUS_LBL_TOT_UPLD == "Total: "
STATUS_LBL_WAIT == "Waiting ..."
HDR_STATUS == "Uploads"

EmptyLayout ==
    [split       |-> "none",
     logo        |-> None,
     actHdr      |-> None,
     actNextUpld |-> None,
     actLastUpld |-> None,
     actNumUpld  |-> None,
     actCurrent  |-> None,
     main        |-> None,
     footer      |-> None]

BaseUI_init ==
    [console          |-> "Console",
     layout           |-> EmptyLayout,
     conWidth         |-> 0,
     conHeight        |-> 0,
     active           |-> FALSE,
     progBar          |-> None,
     progTaskID       |-> None,
     logo             |-> None,
     show24h          |-> FALSE,
     showLocal        |-> TRUE,
     statusHdr        |-> HDR_STATUS,
     statusLblNext    |-> STATUS_LBL_NEXT,
     statusLblLast    |-> STATUS_LBL_LAST,
     statusLblTotUpld |-> STATUS_LBL_TOT_UPLD]

\* The three guarded properties.
console(ui) == IF ui.active THEN <<ui.console>> ELSE None
layout(ui) == IF ui.active THEN <<ui.layout>> ELSE None
statusbar(ui) == IF ui.active THEN <<ui.layout.actCurrent>> ELSE None

make_time_str(ui, t) == [time |-> t, h24 |-> ui.show24h, local |-> ui.showLocal]

make_statusbar(msg) == [status |-> IF msg # None THEN V(msg) ELSE STATUS_LBL_WAIT]

\* Logo: the name drawn by pyfiglet is logoLen wide and logoLines high; it
\* is kept when it is narrower than the width, and the logo is one row
\* otherwise.
Logo(width, logoLen, logoLines) ==
    [rows  |-> IF logoLen < width THEN Max(logoLines - 1, 1) ELSE 1,
     width |-> width]

\* _render_table reads label and unit of every row, and for a table with
\* data also dataPt, dataPtOK and sparkData (more when dataPt is a number);
\* reading a key that the row lacks is a KeyError.
RowKeys(labelsOnly) ==
    IF labelsOnly THEN {"label", "unit"}
    ELSE {"label", "unit", "dataPt", "dataPtOK", "sparkData"}

render_table_raises(data, labelsOnly) ==
    \E i \in 1..Len(data) : ~(RowKeys(labelsOnly) \subseteq DOMAIN data[i])

render_table(data, labelsOnly) == [table |-> data, labelsOnly |-> labelsOnly]

\* The result of a method: the fields after it and the exception, if any.
After(ui, exc) == [ui |-> ui, raised |-> exc]

\* initialize without the test of the console size.
initialize_anysize(ui, size, logoLen, logoLines, dataRows, enable) ==
    IF ~enable
    THEN After(ui, "none")
    ELSE After([ui EXCEPT !.conWidth = size[1], !.conHeight = size[2],
                          !.active = TRUE], "none")

initialize(ui, size, logoLen, logoLines, dataRows, enable) ==
    LET conWidth == size[1]
        conHeight == size[2]
        logo == Logo(IF conWidth >= APP_2COL_MIN_WIDTH
                     THEN (conWidth * 2) \div 3 ELSE conWidth,
                     logoLen, logoLines)
        split == [EmptyLayout EXCEPT
                    !.split = IF conWidth >= APP_2COL_MIN_WIDTH
                              THEN "2col" ELSE "1col"]
        action == [split EXCEPT
                    !.logo        = IF logo.rows > 1 THEN <<logo>> ELSE None,
                    !.actHdr      = <<[rule |-> ui.statusHdr]>>,
                    !.actNextUpld = <<[label |-> ui.statusLblNext, time |-> None,
                                       status |-> None]>>,
                    !.actLastUpld = <<[label |-> ui.statusLblLast, time |-> None,
                                       status |-> None]>>,
                    !.actNumUpld  = <<[label |-> ui.statusLblTotUpld,
                                       num |-> None, maxNum |-> None]>>,
                    !.actCurrent  = <<make_statusbar(None)>>]
        shown == [action EXCEPT
                    !.main   = <<render_table(dataRows, TRUE)>>,
                    !.footer = <<[footer |-> "plain", width |-> conWidth]>>]
    IN  IF \/ ~enable
           \/ conWidth < APP_1COL_MIN_WIDTH
           \/ conHeight < APP_MIN_CLI_HEIGHT
        THEN After(ui, "none")
        ELSE IF dataRows = None
        THEN After(ui, "TypeError")
        ELSE IF render_table_raises(V(dataRows), TRUE)
        THEN After([ui EXCEPT !.layout = action], "KeyError")
        ELSE After([ui EXCEPT !.layout    = shown,
                              !.conWidth  = conWidth,
                              !.conHeight = conHeight,
                              !.active    = TRUE,
                              !.logo      = <<logo>>], "none")

update_data(ui, data) ==
    IF ~ui.active
    THEN After(ui, "none")
    ELSE IF data # None /\ render_table_raises(V(data), FALSE)
    THEN After(ui, "KeyError")
    ELSE After([ui EXCEPT !.layout.main =
                    <<render_table(data, FALSE)>>],
               "none")

update_upload_num(ui, num, maxNum) ==
    IF ~ui.active
    THEN After(ui, "none")
    ELSE After([ui EXCEPT !.layout.actNumUpld =
                    <<[label |-> ui.statusLblTotUpld, num |-> <<num>>,
                       maxNum |-> IF maxNum > 0 THEN <<maxNum>> ELSE None]>>],
               "none")

update_upload_next(ui, nextTime) ==
    IF ~ui.active
    THEN After(ui, "none")
    ELSE After([ui EXCEPT !.layout.actNextUpld =
                    <<[label |-> ui.statusLblNext,
                       time |-> <<make_time_str(ui, nextTime)>>,
                       status |-> None]>>],
               "none")

update_upload_last(ui, lastTime, lastStatus) ==
    IF ~ui.active
    THEN After(ui, "none")
    ELSE After([ui EXCEPT !.layout.actLastUpld =
                    <<[label |-> ui.statusLblLast,
                       time |-> <<make_time_str(ui, lastTime)>>,
                       status |-> IF lastStatus = STATUS_OK
                                  THEN <<"[OK]">> ELSE <<"[Error]">>]>>],
               "none")

update_upload_status(ui, lastTime, lastStatus, nextTime, numUploads, maxUploads) ==
    IF ~ui.active
    THEN After(ui, "none")
    ELSE LET next == update_upload_next(ui, nextTime).ui
             last == update_upload_last(next, lastTime, lastStatus).ui
         IN  update_upload_num(last, numUploads, maxUploads)

\* update_action without the test of _active.
update_action_always(ui, actMsg) ==
    After([ui EXCEPT !.layout.actCurrent = <<make_statusbar(actMsg)>>], "none")

update_action(ui, actMsg) ==
    IF ~ui.active
    THEN After(ui, "none")
    ELSE After([ui EXCEPT !.layout.actCurrent = <<make_statusbar(actMsg)>>],
               "none")

update_progress(ui, progUpdate, progMsg) ==
    IF ~ui.active
    THEN After(ui, "none")
    ELSE IF progUpdate = None \/ ui.progBar = None
    THEN LET bar == [description |-> IF progMsg # None THEN V(progMsg)
                                     ELSE STATUS_LBL_WAIT,
                     total |-> MAX_PROGBAR, completed |-> 0]
         IN  After([ui EXCEPT !.progBar = <<bar>>,
                              !.progTaskID = <<0>>,
                              !.layout.actCurrent = <<[progress |-> "progBar"]>>],
                   "none")
    ELSE After([ui EXCEPT !.progBar = <<[V(@) EXCEPT !.completed = V(progUpdate)]>>],
               "none")

\* --- inputs of the UI model
ConsoleWidths == {39, 40, 80}
ConsoleHeights == {9, 10}
LogoLens == {50}
LogoLines == {6}
UIRows ==
    {None, <<<<>>>>, <<<<[unit |-> "C"]>>>>,
     <<<<[label |-> "Temperature", unit |-> "C", dataPt |-> None,
          dataPtOK |-> TRUE, sparkData |-> <<>>]>>>>}
UITimes == {1}
UINums == {1}
UIMaxNums == {0, 2}
UIStatuses == {200, 500}
UIMsgs == {None, Str("Uploading ...")}
UIProgress == {None, Num(50)}
UIProgMsgs == {None}

InitUI ==
    /\ fn = "BaseUI"
    /\ args = [none |-> None]
    /\ pc = "return"
    /\ ret = None
    /\ raised = "none"
    /\ heap = BaseUI_init

\* One method call on the UI, from call to return or raise.
Method(name, a, out) ==
    /\ fn' = name
    /\ args' = a
    /\ pc' = "return"
    /\ ret' = None
    /\ raised' = out.raised
    /\ heap' = out.ui

Do_initialize ==
    \E w \in ConsoleWidths, h \in ConsoleHeights, logoLen \in LogoLens,
       logoLines \in LogoLines, dataRows \in UIRows, enable \in BOOLEAN :
        Method("initialize",
               [size |-> <<w, h>>, dataRows |-> dataRows, enable |-> enable],
               initialize(heap, <<w, h>>, logoLen, logoLines, dataRows, enable))

Do_update_data ==
    \E data \in UIRows :
        Method("update_data", [data |-> data], update_data(heap, data))

Do_update_upload_num ==
    \E num \in UINums, maxNum \in UIMaxNums :
        Method("update_upload_num", [num |-> num, maxNum |-> maxNum],
               update_upload_num(heap, num, maxNum))

Do_update_upload_next ==
    \E nextTime \in UITimes :
        Method("update_upload_next", [nextTime |-> nextTime],
               update_upload_next(heap, nextTime))

Do_update_upload_last ==
    \E lastTime \in UITimes, lastStatus \in UIStatuses :
        Method("update_upload_last",
               [lastTime |-> lastTime, lastStatus |-> lastStatus],
               update_upload_last(heap, lastTime, lastStatus))

Do_update_upload_status ==
    \E lastTime \in UITimes, lastStatus \in UIStatuses, nextTime \in UITimes,
       numUploads \in UINums, maxUploads \in UIMaxNums :
        Method("update_upload_status",
               [lastTime |-> lastTime, lastStatus |-> lastStatus,
                nextTime |-> nextTime, numUploads |-> numUploads,
                maxUploads |-> maxUploads],
               update_upload_status(heap, lastTime, lastStatus, nextTime,
                                    numUploads, maxUploads))

Do_update_action ==
    \E actMsg \in UIMsgs :
        Method("update_action", [actMsg |-> actMsg], update_action(heap, actMsg))

Do_update_progress ==
    \E progUpdate \in UIProgress, progMsg \in UIProgMsgs :
        Method("update_progress", [progUpdate |-> progUpdate, progMsg |-> progMsg],
               update_progress(heap, progUpdate, progMsg))

\* Reading the properties console, layout and statusbar.
Get_properties ==
    /\ fn' = "properties"
    /\ args' = [none |-> None]
    /\ pc' = "return"
    /\ ret' = <<[console |-> console(heap), layout |-> layout(heap),
                 statusbar |-> statusbar(heap)]>>
    /\ raised' = "none"
    /\ UNCHANGED heap

NextUI ==
    \/ Do_initialize
    \/ Do_update_data
    \/ Do_update_upload_num
    \/ Do_update_upload_next
    \/ Do_update_upload_last
    \/ Do_update_upload_status
    \/ Do_update_action
    \/ Do_update_progress
    \/ Get_properties

SpecUI == InitUI /\ [][NextUI]_vars

\* ------------------------------------------------------------------ claims

Returned(f) == pc = "return" /\ fn = f /\ raised = "none"

\* The range of the data model: an absent bound does not constrain, a
\* present lower bound excludes smaller values and a present upper bound
\* larger ones.  range is None or a pair of None-or-number.
InsideRange(v, range) ==
    \/ range = None
    \/ /\ (range[1] # None => V(range[1]) <= v)
       /\ (range[2] # None => v <= V(range[2]))

\* The window that a returned row shows: the last k samples of data.
Shown(data, k) == SubSeq(data, Len(data) - k + 1, Len(data))

\* The row, the window and the range of a prep_data call on one data type.
TheRow == args.inData[1].row
TheSet == ret[1]
TheShown == Shown(TheRow.data, Len(TheSet.sparkData))
PreparedFull == Returned("prep_data") /\ ~args.labelsOnly

\* C1: with both bounds present and lo <= hi (0 included), is_valid(v, (lo, hi))
\* is True if and only if lo <= v <= hi.
C1_ValidIffInsideBounds ==
    (/\ Returned("is_valid") /\ args.allowNone
     /\ args.val # None /\ args.valid # None
     /\ args.valid[1] # None /\ args.valid[2] # None
     /\ V(args.valid[1]) <= V(args.valid[2]))
    => (ret <=> (V(args.valid[1]) <= V(args.val) /\ V(args.val) <= V(args.valid[2])))

\* C2: with exactly one bound absent only the present bound constrains the
\* value: (lo, None) is True iff v >= lo, (None, hi) is True iff v <= hi; with
\* both bounds absent, or no range, is_valid is True for every value.
C2_OnlyPresentBoundConstrains ==
    (Returned("is_valid") /\ args.allowNone /\ args.val # None)
    => /\ (args.valid = None \/ args.valid = <<None, None>>) => ret
       /\ (args.valid # None /\ args.valid[1] # None /\ args.valid[2] = None)
            => (ret <=> V(args.val) >= V(args.valid[1]))
       /\ (args.valid # None /\ args.valid[1] = None /\ args.valid[2] # None)
            => (ret <=> V(args.val) <= V(args.valid[2]))

\* C3: at each position sparkData holds the sample when it is present and
\* inside the range, and 0 when it is absent or outside the range.
C3_GraphValuesZeroInvalid ==
    PreparedFull
    => \A i \in 1..Len(TheSet.sparkData) :
          TheSet.sparkData[i] =
              IF TheShown[i] # None /\ InsideRange(V(TheShown[i]), TheRow.valid)
              THEN V(TheShown[i]) ELSE 0

\* C4 (as claimed): sparkData has the length of the input window, whatever
\* the window length and the console width.
C4_GraphLengthIsWindowLength ==
    PreparedFull => Len(TheSet.sparkData) = Len(TheRow.data)

\* C4 (amended): sparkData has the length of the slice prep_data takes, the
\* last graphWidth = min(conWidth div 2, 40) samples of the window (the whole
\* window when it has no more than graphWidth samples, or graphWidth is 0),
\* and holds at each position the sample of that position of the slice, or 0.
C4_GraphFollowsSlice ==
    PreparedFull
    => LET n  == Len(TheRow.data)
           gw == IF args.conWidth \div 2 < 40 THEN args.conWidth \div 2 ELSE 40
           k  == IF gw = 0 \/ n <= gw THEN n ELSE gw
       IN  /\ Len(TheSet.sparkData) = k
           /\ \A i \in 1..k :
                \/ TheSet.sparkData[i] = 0
                \/ /\ TheRow.data[n - k + i] # None
                   /\ TheSet.sparkData[i] = V(TheRow.data[n - k + i])

\* C4 witness: a row returned for a window longer than the graph is wide.
C4_Witness ==
    /\ PreparedFull
    /\ Len(TheSet.sparkData) < Len(TheRow.data)
    /\ \E i \in 1..Len(TheSet.sparkData) : TheSet.sparkData[i] # 0

\* The present samples of s that are inside the range.
CleanOf(s, range) ==
    {V(s[i]) : i \in {j \in 1..Len(s) : s[j] # None /\ InsideRange(V(s[j]), range)}}

\* C5: sparkMinMax is (min, max) of the present and valid samples whenever
\* there is one (also when all of them are 0), and (None, None) exactly when
\* there is none.
C5_MinMaxOfCleanSamples ==
    PreparedFull
    => LET clean == CleanOf(TheShown, TheRow.valid)
       IN  IF clean = {}
           THEN TheSet.sparkMinMax = <<None, None>>
           ELSE /\ TheSet.sparkMinMax[1] # None /\ TheSet.sparkMinMax[2] # None
                /\ V(TheSet.sparkMinMax[1]) \in clean
                /\ V(TheSet.sparkMinMax[2]) \in clean
                /\ \A x \in clean : /\ V(TheSet.sparkMinMax[1]) <= x
                                    /\ x <= V(TheSet.sparkMinMax[2])

\* C6: for present previous and latest and f >= 0, the trend is +1 iff
\* latest > previous * (1 + f), -1 iff latest < previous * (1 - f), and 0
\* otherwise (latest on a band edge gives 0).
C6_TrendFollowsBand ==
    (Returned("get_delta_range") /\ args.first # None /\ args.second # None)
    => LET latest   == 100 * V(args.first)
           previous == V(args.second)
           above    == latest > previous * (100 + args.factor)
           below    == latest < previous * (100 - args.factor)
       IN  /\ (ret = 1) <=> above
           /\ (ret = -1) <=> below
           /\ (ret = 0) <=> (~above /\ ~below)

\* Whether sample x is missing, or outside the range.
MissingOrOutside(x, range) == x = None \/ ~InsideRange(V(x), range)

\* C7: the trend is 0 whenever the latest or the preceding sample is absent
\* or out of range: get_delta_range returns 0 if an argument is None, and
\* dataPtDelta is 0 whenever the last or second-to-last sample is missing or
\* out of range.
C7_TrendZeroWhenUnknown ==
    /\ (Returned("get_delta_range") /\ (args.first = None \/ args.second = None))
       => ret = 0
    /\ PreparedFull
       => LET n == Len(TheRow.data)
          IN  (\/ MissingOrOutside(TheRow.data[n], TheRow.valid)
               \/ MissingOrOutside(TheRow.data[n - 1], TheRow.valid))
              => TheSet.dataPtDelta = 0

\* C8: is_in_range is True when first or second is absent, and otherwise
\* True exactly when get_delta_range of the same arguments is 0.
C8_InRangeIffTrendFlat ==
    Returned("is_in_range")
    => IF args.first = None \/ args.second = None
       THEN ret
       ELSE ret <=> (get_delta_range(args.first, args.second, args.factor) = 0)

\* The five severity buckets of a limit set (A, B, C, D), 0 to 4.
Bucket5(v, l) ==
    IF v <= V(l[1]) THEN 0
    ELSE IF v <= V(l[2]) THEN 1
    ELSE IF v <= V(l[3]) THEN 2
    ELSE IF v <= V(l[4]) THEN 3
    ELSE 4

FullyPresent(l) == \A i \in 1..4 : l[i] # None

\* C9: for a present value and a fully-present limit set the classifier
\* returns the label of the value's bucket among the five of the colour map:
\* dangerously-low (v <= A), low (A < v <= B), normal (B < v <= C), high
\* (C < v <= D), dangerously-high (v > D).
C9_FiveSeverityLabels ==
    (Returned("dataPt_color") /\ args.val # None /\ FullyPresent(args.limits))
    => ret = COLOR_MAP[Bucket5(V(args.val), args.limits) + 1]

\* The order of the labels the classifier returns; the default label, given
\* when nothing is classified, ranks lowest.
BucketRank(color) ==
    IF color = get_tri_colors(None).low THEN 1
    ELSE IF color = get_tri_colors(None).normal THEN 2
    ELSE IF color = get_tri_colors(None).high THEN 3
    ELSE 0

\* C10: for a fully-present ordered limit set the bucket of a value is
\* monotonic non-decreasing in the value: v1 <= v2 implies
\* bucket(v1) <= bucket(v2) in the order low < normal < high.
C10_BucketMonotonic ==
    (Returned("dataPt_color") /\ args.val # None /\ FullyPresent(args.limits))
    => \A v2 \in ColorVals :
          V(args.val) <= v2
          => BucketRank(ret) <= BucketRank(dataPt_color(Num(v2), args.limits, ""))

\* C10 witness: a value classified high under limits that classify a smaller
\* value low and one in between normal.
C10_Witness ==
    /\ Returned("dataPt_color") /\ args.val # None /\ FullyPresent(args.limits)
    /\ ret = get_tri_colors(None).high
    /\ \E v1 \in ColorVals, v2 \in ColorVals :
          /\ v1 < v2 /\ v2 < V(args.val)
          /\ dataPt_color(Num(v1), args.limits, "") = get_tri_colors(None).low
          /\ dataPt_color(Num(v2), args.limits, "") = get_tri_colors(None).normal

\* C11: classification is disabled (the default label for every value, and
\* no emphasis map) exactly when the limit set has an absent entry; a limit
\* set whose four entries are present, 0 included, gives every present value
\* a severity label.
C11_DisabledIffEntryAbsent ==
    /\ (Returned("dataPt_color") /\ args.val # None)
       => ((ret = "") <=> ~FullyPresent(args.limits))
    /\ Returned("sparkline_colors")
       => ((ret = None) <=> ~FullyPresent(args.limits))

\* Whether a rule of the emphasis map applies to value v.
RuleMatches(rule, v) ==
    \/ rule.op = "gt" /\ v > rule.value
    \/ rule.op = "eq" /\ v = rule.value
    \/ rule.op = "lt" /\ v < rule.value

\* The colour a renderer gives v when the first matching rule wins, and when
\* a later matching rule overrides an earlier one; "" when no rule matches.
FirstMatch(map, v) ==
    LET hits == {i \in 1..Len(map) : RuleMatches(map[i], v)}
    IN  IF hits = {} THEN ""
        ELSE map[CHOOSE i \in hits : \A j \in hits : i <= j].color

LastMatch(map, v) ==
    LET hits == {i \in 1..Len(map) : RuleMatches(map[i], v)}
    IN  IF hits = {} THEN ""
        ELSE map[CHOOSE i \in hits : \A j \in hits : i >= j].color

\* The five rules in the order high > c, normal = c, normal < c, low = b,
\* low < b.
FiveRules(b, c) ==
    << [color |-> COLOR_MAP[5], op |-> "gt", value |-> c],
       [color |-> COLOR_MAP[3], op |-> "eq", value |-> c],
       [color |-> COLOR_MAP[3], op |-> "lt", value |-> c],
       [color |-> COLOR_MAP[1], op |-> "eq", value |-> b],
       [color |-> COLOR_MAP[1], op |-> "lt", value |-> b] >>

\* C12 (as claimed): for a fully-present limit set the emphasis map is the
\* five rules high > C, normal = C, normal < C, low = B, low < B, and a
\* renderer in which the first matching rule wins gives every value the
\* bucket of the scalar classifier.
C12_FirstMatchIsScalar ==
    (Returned("sparkline_colors") /\ FullyPresent(args.limits))
    => /\ ret = FiveRules(V(args.limits[2]), V(args.limits[3]))
       /\ \A v \in ColorVals :
             FirstMatch(ret, v) = dataPt_color(Num(v), args.limits, "")

\* C12 (amended): whenever an emphasis map is produced it is the five rules
\* in that order with the thresholds B and C rounded to one decimal, and a
\* renderer in which a later matching rule overrides an earlier one gives
\* every value the bucket of the scalar classifier.
C12_LastMatchIsScalar ==
    (Returned("sparkline_colors") /\ ret # None)
    => /\ ret = FiveRules(round1(V(args.limits[2])), round1(V(args.limits[3])))
       /\ \A v \in ColorVals :
             LastMatch(ret, v) = dataPt_color(Num(v), args.limits, "")

\* C12 witness: a map whose low rules decide a value that the normal rule
\* also matches, so that the two ways of applying the rules differ.
C12_Witness ==
    /\ Returned("sparkline_colors") /\ ret # None
    /\ \E v \in ColorVals :
          /\ FirstMatch(ret, v) = COLOR_MAP[3]
          /\ LastMatch(ret, v) = COLOR_MAP[1]
          /\ dataPt_color(Num(v), args.limits, "") = COLOR_MAP[1]

\* The slice that prep_data shows is shorter than the window of the row.
SliceShorter ==
    Len(dataSliceOf(TheRow, args.conWidth)) < Len(TheRow.data)

C14_NoExceptionForAnyWindow ==
    (fn = "prep_data" /\ pc # "call") => raised = "none"

\* A range with both bounds present and min > max.
Inverted(range) ==
    /\ range # None /\ range[1] # None /\ range[2] # None
    /\ V(range[1]) > V(range[2])

inMin == args.inMinMax[1]
inMax == args.inMinMax[2]
outMin == args.outMinMax[1]
outMax == args.outMinMax[2]
NumInRange == args.num # None /\ inMin <= V(args.num) /\ V(args.num) <= inMax
RetIs(x) == ret # None /\ ret[1] = x * ret[2]

\* C16: num_to_range raises ValueError, and returns no value, whenever
\* inMinMax[0] > inMinMax[1] or outMinMax[0] > outMinMax[1], for every num
\* (None included) and either value of force.
C16_InvalidRangeRaises ==
    (fn = "num_to_range" /\ pc = "return" /\ (inMin > inMax \/ outMin > outMax))
    => (raised = "ValueError" /\ ret = None)

C16_Witness ==
    /\ fn = "num_to_range" /\ pc = "return" /\ raised = "ValueError"
    /\ inMin <= inMax /\ outMin > outMax
    /\ args.num = None /\ args.force

\* C17: a number that num_to_range returns lies within the target range:
\* outMinMax[0] <= result <= outMinMax[1].
C17_ResultWithinTarget ==
    (Returned("num_to_range") /\ ret # None)
    => (outMin * ret[2] <= ret[1] /\ ret[1] <= outMax * ret[2])

C17_Witness ==
    /\ Returned("num_to_range") /\ ret # None
    /\ inMin < inMax /\ outMin = outMax
    /\ args.num # None /\ V(args.num) > inMin

\* C18 (as claimed): with force=False a None num or a num outside
\* [inMin, inMax] yields None; with force=True a None num or a num below
\* inMin yields outMin, and a num above inMax yields outMax.
C18_ForceMapsToEnds ==
    Returned("num_to_range")
    => /\ (~args.force /\ ~NumInRange) => ret = None
       /\ (args.force /\ (args.num = None \/ V(args.num) < inMin))
          => RetIs(outMin)
       /\ (args.force /\ args.num # None /\ V(args.num) > inMax)
          => RetIs(outMax)

\* C18 (amended): as claimed, but a num above inMax yields outMax only when
\* inMin < inMax; when inMin = inMax it yields outMin.
C18_ForceMapsToEndsOfProperRange ==
    Returned("num_to_range")
    => /\ (~args.force /\ ~NumInRange) => ret = None
       /\ (args.force /\ (args.num = None \/ V(args.num) < inMin))
          => RetIs(outMin)
       /\ (args.force /\ args.num # None /\ V(args.num) > inMax)
          => RetIs(IF inMin < inMax THEN outMax ELSE outMin)

C18_Witness ==
    /\ Returned("num_to_range") /\ args.force
    /\ args.num # None /\ V(args.num) > inMax
    /\ inMin = inMax /\ outMin < outMax
    /\ RetIs(outMin)

C20_DegenerateRangeGivesOutMin ==
    /\ (fn = "num_to_range" /\ pc = "return") => raised # "ZeroDivisionError"
    /\ (fn = "num_to_range" /\ pc = "return"
          /\ inMin <= inMax /\ outMin <= outMax
          /\ (inMin = inMax \/ outMin = outMax) /\ NumInRange)
       => (raised = "none" /\ RetIs(outMin))

C20_Witness ==
    /\ Returned("num_to_range")
    /\ inMin = Whole(10) /\ inMax = Whole(10) /\ args.num = Num(Whole(10))
    /\ outMin = 0 /\ outMax = Whole(10)
    /\ ret = <<0, Whole(1)>>


\* Two strings that are equal when the case of their letters is ignored.
CasePairs == {<<"E", "e">>, <<"N", "n">>, <<"O", "o">>, <<"R", "r">>,
              <<"S", "s">>, <<"T", "t">>, <<"U", "u">>, <<"Y", "y">>}
SameIgnoringCase(str, word) ==
    /\ Len(str) = Len(word)
    /\ \A i \in 1..Len(str) : str[i] = word[i] \/ <<str[i], word[i]>> \in CasePairs

TheLast == TheRow.data[Len(TheRow.data)]

\* C22: dataPtOK is true exactly when the current (last) sample is missing
\* or within the range of the row, a sample of 0 included, and false exactly
\* when it is present and outside the range.
C22_OKIffValidOrMissing ==
    PreparedFull
    => (TheSet.dataPtOK
          <=> (TheLast = None \/ InsideRange(V(TheLast), TheRow.valid)))


\* C29: get_delta_range(v, v, f) = 0 for every present v, positive, zero or
\* negative, and every tolerance f >= 0: a sample equal to the previous one
\* is flat.
C29_EqualSamplesAreFlat ==
    (Returned("get_delta_range") /\ args.first # None /\ args.first = args.second)
    => ret = 0


\* The operations of AdafruitCloud.
ServiceOps == {"create_feed", "feed_list", "feed_info", "delete_feed",
               "send_data", "receive_data", "receive_weather", "receive_random"}

\* C23: the service is active iff it was constructed with a non-empty AIO_ID
\* and a non-empty AIO_KEY; on a service that is not active every operation
\* raises AdafruitCloudError, and no call of the REST client is ever made.
C23_InactiveServiceRaises ==
    /\ heap.service.active
         <=> (TruthyStr(heap.service.ID) /\ TruthyStr(heap.service.KEY))
    /\ ~heap.service.active
         => /\ heap.calls = <<>>
            /\ fn \in ServiceOps => raised = "AdafruitCloudError"

C23_Witness ==
    /\ heap.service.ID = Str("user") /\ heap.service.KEY = Str("")
    /\ fn = "send_data" /\ raised = "AdafruitCloudError"

\* C30: awaiting AdafruitFeed.receive_data(raw) on an active feed gives what
\* a completed service.receive_data(feed.key, raw) gives, its value or its
\* exception, and never an operation that is still to be awaited; awaiting
\* AdafruitFeed.send_data completes the send of the service; on a feed that
\* is not active both raise AdafruitCloudError.
C30_FeedReceiveIsCompleted ==
    /\ (fn = "AdafruitFeed.receive_data" /\ heap.feed.active)
       => /\ ~(raised = "none" /\ IsCoroutine(ret))
          /\ \E answer \in Answers :
                LET done == receive_data(heap.service, V(heap.feed.feed).key,
                                         args.raw, answer)
                IN  raised = done.raised /\ ret = done.ret
    /\ (fn = "AdafruitFeed.send_data" /\ heap.feed.active)
       => \E answer \in Answers :
             LET done == send_data(heap.service, V(heap.feed.feed).key,
                                   args.dataPt, answer)
             IN  raised = done.raised /\ ret = done.ret
    /\ (fn \in {"AdafruitFeed.send_data", "AdafruitFeed.receive_data"}
          /\ ~heap.feed.active)
       => raised = "AdafruitCloudError"


\* C24: when the upload inside collect_data is interrupted by
\* KeyboardInterrupt, collect_data returns True, whatever maxUploads and
\* numUploads are.
C24_InterruptedUploadExits ==
    (fn = "collect_data" /\ heap.upload = "KeyboardInterrupt") => ret = TRUE


\* The runtime object of the loop, and the steps in which collect_data runs.
TheApp == heap.app
Collected == fn' = "collect_data"

\* C25: with maxUploads > 0, numUploads never exceeds maxUploads, and the
\* loop has ended as soon as numUploads >= maxUploads: collect_data returned
\* True.  numUploads grows by exactly 1 with each upload that succeeds and
\* not otherwise.  With maxUploads <= 0, collect_data never returns True.
C25_UploadsNeverExceedMax ==
    /\ [](TheApp.maxUploads > 0
            => /\ TheApp.numUploads <= TheApp.maxUploads
               /\ TheApp.numUploads >= TheApp.maxUploads
                    => (pc = "done" /\ fn = "collect_data" /\ ret = TRUE))
    /\ [](TheApp.maxUploads <= 0 => ~(fn = "collect_data" /\ ret = TRUE))
    /\ [][heap'.app.numUploads
            = TheApp.numUploads
              + (IF Collected /\ heap'.upload = "ok" THEN 1 ELSE 0)]_vars

C25_Witness ==
    /\ pc = "done" /\ fn = "collect_data" /\ ret = TRUE
    /\ TheApp.maxUploads = 2 /\ TheApp.numUploads = 2

\* C26: with maxUploads > 0 the loop ends, unless an upload is interrupted:
\* every run in which time advances with each iteration comes to a state
\* where maxUploads <= 0 (it is fixed for the run), or the loop has ended,
\* or an upload was interrupted.
\* On the way: a sensor read happens exactly when waitForSensor has run
\* down to 0, and sets it to max(ioWait, 1), so reads are max(ioWait, 1)
\* iterations apart; a read attempts an upload exactly when timeSinceUpdate
\* >= uploadDelay; every attempt sets timeUpdate to the current time; an
\* upload that succeeds sets uploadDelay to ioFreq.
C26_LoopTerminates ==
    /\ <>(\/ TheApp.maxUploads <= 0
          \/ pc = "done"
          \/ heap.upload = "KeyboardInterrupt")
    /\ [][/\ Collected <=> heap.waitForSensor <= 0
          /\ pc' = "loop"
               => heap'.waitForSensor
                    = (IF Collected
                       THEN Max(TheApp.ioWait, 1)
                       ELSE heap.waitForSensor) - 1
          /\ Collected
               => /\ heap'.upload # "none"
                     <=> heap.clock - TheApp.timeUpdate >= TheApp.uploadDelay
                  /\ heap'.upload # "none"
                     => heap'.app.timeUpdate = heap.clock
                  /\ heap'.upload = "ok"
                     => heap'.app.uploadDelay = TheApp.ioFreq]_vars

C26_Witness ==
    /\ pc = "done" /\ fn = "collect_data"
    /\ TheApp.maxUploads = 2 /\ TheApp.numUploads = 2
    /\ TheApp.ioDelay = 2 /\ TheApp.ioFreq = 3 /\ TheApp.ioWait = 2
    /\ heap.clock >= 9

UpdateOps ==
    {"update_data", "update_upload_num", "update_upload_next",
     "update_upload_last", "update_upload_status", "update_action",
     "update_progress"}

\* The call that has just returned was an initialize with enable true on a
\* console of at least 40 columns and 10 rows.
PassingInitialize ==
    /\ fn' = "initialize"
    /\ args'.enable
    /\ args'.size[1] >= 40
    /\ args'.size[2] >= 10

\* C27: a BaseUI starts inactive; it becomes active only through an
\* initialize call with enable true on a console at least 40 columns wide and
\* 10 rows high; an initialize call that fails this test changes no field of
\* the UI; and no later call makes an active UI inactive.
C27_ActiveOnlyByInitialize ==
    /\ ~heap.active
    /\ [][/\ (~heap.active /\ heap'.active => PassingInitialize)
          /\ (fn' = "initialize" /\ ~PassingInitialize => heap' = heap)
          /\ (heap.active => heap'.active)]_vars

C27_Witness ==
    /\ fn = "initialize"
    /\ args.enable
    /\ args.size = <<40, 10>>
    /\ heap.active
    /\ heap.conWidth = 40

\* C28: while a BaseUI is not active, each of the update_* methods leaves
\* the layout, the progress bar and every other field as it was, and the
\* properties console, layout and statusbar are None.
C28_InactiveUIIsInert ==
    [][/\ (~heap.active /\ fn' \in UpdateOps => heap' = heap)
       /\ (~heap.active /\ fn' = "properties"
             => ret' = <<[console |-> None, layout |-> None,
                          statusbar |-> None]>>)]_vars

\* An update on a UI that is inactive although initialize has already split
\* its layout (the call raised before the end).
C28_Witness ==
    /\ fn \in UpdateOps
    /\ ~heap.active
    /\ heap.layout.split # "none"
    /\ heap.progBar = None

====
